---- MODULE Spec2Model ----
(***************************************************************************)
(* Model of src/lib/runner.js (QueueRunner, Worker, run, cleanExit) and    *)
(* src/lib/helpers/runHelper.js.                                           *)
(*                                                                         *)
(* One node process: every handler (run, a redis reply callback, a timer   *)
(* callback, a child 'exit' callback, a signal handler) runs to completion *)
(* and is one action.  Each Worker owns one redis connection; the commands *)
(* it issues travel in order (pipe) and the store applies them one at a    *)
(* time; only lpop carries a callback, whose reply travels back (reply).   *)
(* After redis.quit() the client is closing: a command issued on it is not *)
(* sent; it is answered with an error (to the callback when it has one,    *)
(* else to the 'error' listener of createRedisClient, which logs it), and  *)
(* a server that has read QUIT closes the connection, so on either side a  *)
(* command issued after quit() is never applied.  Commands issued before   *)
(* it are applied, and their replies delivered, in order.                  *)
(* Timestamps (run_at, failed_at, :started) are left out.                  *)
(***************************************************************************)
EXTENDS Integers, Sequences, FiniteSets, TLC

\* ---------------------------------------------------------------- bounds
\* the number of entries pushed to the queue before run()
MaxJobs == 1

\* ------------------------------------------------------------ JSON texts
Absent == [t |-> "absent", v |-> ""]
Undefined == [t |-> "undefined", v |-> ""]
JNull == [t |-> "null", v |-> "null"]
JStr(s) == [t |-> "string", v |-> s]
JArr(s) == [t |-> "array", v |-> s]

NoFields == [k \in {} |-> Undefined]

\* the payload texts a queue entry may hold
JobText == "{\"class\":\"Job\",\"args\":[1]}"
PayloadTexts == {JobText, "not json", "{}", ""}

\* the texts a subprocess may write to stderr
FullDiag == "{\"exception\":\"E\",\"error\":\"msg\",\"backtrace\":[\"l1\"]}"
StackTrace == "TypeError: stack"
DiagTexts == {FullDiag, "not json", "", "{}", "null"}

\* JSON.parse on the texts above: ok = FALSE is a thrown SyntaxError
JSONParse(text) ==
  CASE text = JobText ->
         [ok |-> TRUE, kind |-> "object",
          fields |-> ("class" :> JStr("Job")) @@ ("args" :> JArr("[1]"))]
    [] text = FullDiag ->
         [ok |-> TRUE, kind |-> "object",
          fields |-> ("exception" :> JStr("E")) @@ ("error" :> JStr("msg"))
                     @@ ("backtrace" :> JArr("[\"l1\"]"))]
    [] text = "{}" -> [ok |-> TRUE, kind |-> "object", fields |-> NoFields]
    [] text = "5" -> [ok |-> TRUE, kind |-> "number", fields |-> NoFields]
    [] text = "null" -> [ok |-> TRUE, kind |-> "null", fields |-> NoFields]
    [] OTHER -> [ok |-> FALSE, kind |-> "error", fields |-> NoFields]

\* data[key]: throws (ok = FALSE) on null, undefined for a missing key
GetProp(data, key) ==
  IF data.kind = "null" THEN [ok |-> FALSE, val |-> Undefined]
  ELSE IF key \in DOMAIN data.fields THEN [ok |-> TRUE, val |-> data.fields[key]]
  ELSE [ok |-> TRUE, val |-> Undefined]

\* JSON.stringify of an object member: an undefined member is left out
StringifyMember(val) == IF val = Undefined THEN Absent ELSE val

\* ------------------------------------------------------------- the state
QueueNames == {"a", "b"}

\* the resolved configurations run() is given: one queue with one, two or
\* three workers, two queues, and a list that names the same queue twice
\* (QUEUE=a,a)
Configs ==
  {[queue |-> <<"a">>, count |-> 1],
   [queue |-> <<"a">>, count |-> 2],
   [queue |-> <<"b">>, count |-> 3],
   [queue |-> <<"a", "b">>, count |-> 1],
   [queue |-> <<"a", "a">>, count |-> 1]}

NoKey == [queue |-> "", payload |-> [ok |-> FALSE, kind |-> "none", fields |-> NoFields]]

VARIABLES
  store,      \* the redis store: queue lists, live-worker set, keys, stats, failed list
  phase,      \* "init" before run(), "running", "exited" after process.exit
  exitCode,   \* the code process.exit was called with (-1: not exited)
  config,     \* the resolved config: [queue, count]
  queues,     \* the module's queues object: queue name -> index of its QueueRunner
  running,    \* Worker.running
  pollTimer,  \* Worker.pollTimer refers to a timeout that is still pending
  timers,     \* number of pending timeouts the worker has set
  closing,    \* the worker's redis client has been quit()
  pipe,       \* commands issued on the worker's connection, not yet applied
  reply,      \* lpop replies on their way to the worker's callback
  children,   \* queue entries whose subprocess the worker is waiting on
  execBy,     \* history: entry id -> the workers that forked a subprocess for it
  recorded,   \* history: entry id -> stat increments the store applied for it
  exited,     \* history: entry id -> exit codes its subprocesses ended with
  stopped,    \* history: the workers stop() has been called on
  popped,     \* history: the queue entries the store has handed out
  classified  \* history: the entry and stderr text behind each element of the failed list

procVars == <<phase, exitCode, config, queues>>
workerVars == <<running, pollTimer, timers, closing, pipe, reply, children>>
histVars == <<execBy, recorded, exited, stopped, popped, classified>>
vars == <<store, procVars, workerVars, histVars>>

EntryIds == 1..MaxJobs

\* a name built without the worker's index
WorkerNameOfQueue(queue, id) == [id |-> 0, queue |-> queue]
\* new Worker(queue, id).name: host and pid are fixed for the process
WorkerName(queue, id) == [id |-> id, queue |-> queue]

\* a Worker instance: the id-th worker of the r-th QueueRunner run() built
Workers == DOMAIN running
QueueOf(w) == config.queue[w.r]
NameOf(w) == WorkerName(QueueOf(w), w.id)
RunnerWorkers(r) == {w \in Workers : w.r = r}

\* a command on a connection; tag is history: the entry it is issued for and,
\* for the push of a FailureRecord, the stderr text it was built from
Cmd(op, name, val, tag) == [op |-> op, name |-> name, val |-> val, tag |-> tag]
NoTag == [id |-> 0, response |-> ""]
Tag(entry) == [id |-> entry.id, response |-> ""]

\* ------------------------------------------------------------- the store
Nil == [id |-> 0, text |-> "nil"]

Without(f, k) == [x \in DOMAIN f \ {k} |-> f[x]]
With(f, k, v) == (k :> v) @@ f

\* a pop that reads the head and leaves it in the list
LPopPeek(list) == [res |-> IF list = <<>> THEN Nil ELSE Head(list), rest |-> list]
\* LPOP: the head of the list leaves the list and is the reply
LPop(list) ==
  IF list = <<>> THEN [res |-> Nil, rest |-> list]
  ELSE [res |-> Head(list), rest |-> Tail(list)]

\* the store after applying one fire-and-forget command
Apply(st, c) ==
  CASE c.op = "sadd" -> [st EXCEPT !.workers = @ \cup {c.name}]
    [] c.op = "srem" -> [st EXCEPT !.workers = @ \ {c.name}]
    [] c.op = "set_started" -> [st EXCEPT !.started = @ \cup {c.name}]
    [] c.op = "del_started" -> [st EXCEPT !.started = @ \ {c.name}]
    [] c.op = "set_worker" -> [st EXCEPT !.worker = With(@, c.name, c.val)]
    [] c.op = "del_worker" -> [st EXCEPT !.worker = Without(@, c.name)]
    [] c.op = "incr_processed" -> [st EXCEPT !.processed = @ + 1]
    [] c.op = "incr_failed" -> [st EXCEPT !.failed = @ + 1]
    [] c.op = "lpush_failed" -> [st EXCEPT !.failedList = <<c.val>> \o @]
    [] OTHER -> st

\* client.<command>(...) without a callback: sent unless the client is closing
Send(w, cmds) == IF closing[w] THEN pipe[w] ELSE pipe[w] \o cmds

\* ------------------------------------------------------ Worker's methods
\* register(): lines 128-131
Register(w) ==
  <<Cmd("sadd", NameOf(w), NoKey, NoTag), Cmd("set_started", NameOf(w), NoKey, NoTag)>>

\* unregister(): lines 133-137
Unregister(w) ==
  <<Cmd("srem", NameOf(w), NoKey, NoTag), Cmd("del_worker", NameOf(w), NoKey, NoTag),
    Cmd("del_started", NameOf(w), NoKey, NoTag)>>

\* workingOn(data): lines 139-146 (run_at, a timestamp, is left out)
WorkingOn(w, entry) ==
  <<Cmd("set_worker", NameOf(w),
        [queue |-> QueueOf(w), payload |-> JSONParse(entry.text)], Tag(entry))>>

\* a done() that increments both counters
DoneTwice(w, successful, tag) ==
  <<Cmd("incr_processed", NameOf(w), NoKey, tag),
    Cmd("incr_failed", NameOf(w), NoKey, tag),
    Cmd("del_worker", NameOf(w), NoKey, tag)>>
\* done(successful): lines 148-152
Done(w, successful, tag) ==
  <<Cmd(IF successful THEN "incr_processed" ELSE "incr_failed", NameOf(w), NoKey, tag),
    Cmd("del_worker", NameOf(w), NoKey, tag)>>

\* the info object of fail(): lines 167-178
Classify(response) ==
  LET data == JSONParse(response)
      generic == [exception |-> JStr("UnclassifiedRunnerError"),
                  error |-> JStr(response), backtrace |-> Absent]
  IN IF ~data.ok \/ ~GetProp(data, "exception").ok
     THEN [keys |-> {"exception", "error"}, val |-> generic]
     ELSE [keys |-> {"exception", "error", "backtrace"},
           val |-> [exception |-> GetProp(data, "exception").val,
                    error |-> GetProp(data, "error").val,
                    backtrace |-> GetProp(data, "backtrace").val]]

\* the FailureRecord of fail(): Object.assign({}, error, info), then
\* JSON.stringify (failed_at, a timestamp, is left out)
FailureRecord(w, entry, response) ==
  LET info == Classify(response)
      merged(k, base) == IF k \in info.keys THEN info.val[k] ELSE base
  IN [payload |-> JSONParse(entry.text),
      worker |-> NameOf(w),
      queue |-> QueueOf(w),
      backtrace |-> StringifyMember(merged("backtrace", JNull)),
      exception |-> StringifyMember(merged("exception", Undefined)),
      error |-> StringifyMember(merged("error", Undefined))]

\* fail(job, response): lines 158-180
Fail(w, entry, response) ==
  Done(w, FALSE, Tag(entry))
    \o <<Cmd("lpush_failed", NameOf(w), FailureRecord(w, entry, response),
            [id |-> entry.id, response |-> response])>>

\* success(): lines 154-156
Success(w, entry) == Done(w, TRUE, Tag(entry))

\* ------------------------------------------------------------ runHelper
\* what the forked runHelper can end with for a payload text: it throws
\* (exit code 1, a stack trace on stderr) when the payload has no class to
\* require; a job's perform may end with either code and any stderr text
RunHelper(text) ==
  LET job == JSONParse(text)
  IN IF job.ok /\ GetProp(job, "class").ok /\ GetProp(job, "class").val # Undefined
     THEN [code : {0, 1}, stderr : DiagTexts]
     ELSE {[code |-> 1, stderr |-> StackTrace]}

\* -------------------------------------------------------------- Init
\* the entries pushed to queue a before run(), numbered in the order they
\* were pushed; queue b is empty
Entries(ts) == [i \in 1..Len(ts) |-> [id |-> i, text |-> ts[i]]]

InitialQueues ==
  {[q \in QueueNames |-> IF q = "a" THEN Entries(ts) ELSE <<>>] :
     ts \in UNION {[1..n -> PayloadTexts] : n \in 0..MaxJobs}}

NoWorkers == [w \in {} |-> FALSE]

Init ==
  /\ store \in {[queue |-> qs, workers |-> {}, worker |-> [n \in {} |-> NoKey],
                 started |-> {}, processed |-> 0, failed |-> 0, failedList |-> <<>>] :
                qs \in InitialQueues}
  /\ phase = "init"
  /\ exitCode = -1
  /\ config = [queue |-> <<>>, count |-> 0]
  /\ queues = [q \in {} |-> 0]
  /\ running = NoWorkers
  /\ pollTimer = NoWorkers
  /\ timers = NoWorkers
  /\ closing = NoWorkers
  /\ pipe = NoWorkers
  /\ reply = NoWorkers
  /\ children = NoWorkers
  /\ execBy = [e \in EntryIds |-> {}]
  /\ recorded = [e \in EntryIds |-> [processed |-> 0, failed |-> 0]]
  /\ exited = [e \in EntryIds |-> {}]
  /\ stopped = {}
  /\ popped = {}
  /\ classified = <<>>

\* ------------------------------------------------------------- actions
LpopCmd(w) == Cmd("lpop", NameOf(w), NoKey, NoTag)

\* run(options): lines 247-260, with new QueueRunner (29-37) and
\* Worker.start (67-72) for every worker
Run(cfg) ==
  LET ql == cfg.queue
      W == {[r |-> r, id |-> i] : r \in 1..Len(ql), i \in 0..(cfg.count - 1)}
  IN /\ phase = "init"
     /\ phase' = "running"
     /\ config' = cfg
     /\ queues' = [q \in {ql[r] : r \in 1..Len(ql)} |->
                     CHOOSE r \in 1..Len(ql) :
                       ql[r] = q /\ \A r2 \in 1..Len(ql) : ql[r2] = q => r2 <= r]
     /\ running' = [w \in W |-> TRUE]
     /\ pollTimer' = [w \in W |-> FALSE]
     /\ timers' = [w \in W |-> 0]
     /\ closing' = [w \in W |-> FALSE]
     /\ pipe' = [w \in W |-> (Register(w) \o <<LpopCmd(w)>>)']
     /\ reply' = [w \in W |-> <<>>]
     /\ children' = [w \in W |-> {}]
     /\ UNCHANGED <<store, exitCode, histVars>>

\* the store applies the next command of a connection
StoreApply(w) ==
  /\ pipe[w] # <<>>
  /\ LET c == Head(pipe[w])
         q == c.name.queue
         r == LPop(store.queue[q])
     IN /\ pipe' = [pipe EXCEPT ![w] = Tail(@)]
        /\ IF c.op = "lpop"
           THEN /\ store' = [store EXCEPT !.queue[q] = r.rest]
                /\ reply' = [reply EXCEPT ![w] = Append(@, [err |-> FALSE, res |-> r.res])]
                /\ popped' = IF r.res = Nil THEN popped ELSE popped \cup {r.res}
                /\ UNCHANGED <<recorded, classified>>
           ELSE /\ store' = Apply(store, c)
                /\ UNCHANGED <<reply, popped>>
                /\ recorded' =
                     IF c.op = "incr_processed"
                     THEN [recorded EXCEPT ![c.tag.id].processed = @ + 1]
                     ELSE IF c.op = "incr_failed"
                     THEN [recorded EXCEPT ![c.tag.id].failed = @ + 1]
                     ELSE recorded
                /\ classified' =
                     IF c.op = "lpush_failed" THEN <<c.tag>> \o classified
                     ELSE classified
  /\ UNCHANGED <<procVars, running, pollTimer, timers, closing, children,
                 execBy, exited, stopped>>

\* a transport error: the lpop is not applied and its callback gets err
StoreError(w) ==
  /\ pipe[w] # <<>>
  /\ Head(pipe[w]).op = "lpop"
  /\ pipe' = [pipe EXCEPT ![w] = Tail(@)]
  /\ reply' = [reply EXCEPT ![w] = Append(@, [err |-> TRUE, res |-> Nil])]
  /\ UNCHANGED <<store, procVars, running, pollTimer, timers, closing, children,
                 histVars>>

ErrReply == [err |-> TRUE, res |-> Nil]

\* setTimeout(() => this.waitAndProcess(), this.interval), kept in pollTimer
SetTimeout(w) ==
  /\ timers' = [timers EXCEPT ![w] = @ + 1]
  /\ pollTimer' = [pollTimer EXCEPT ![w] = TRUE]

\* waitAndProcess() up to the lpop call (line 83); rep is the worker's reply
\* queue as the running callback leaves it.  On a closing client the command
\* is not sent and the callback gets the client's error
IssueLpop(w, rep) ==
  /\ pipe' = [pipe EXCEPT ![w] = IF closing[w] THEN @ ELSE Append(@, LpopCmd(w))]
  /\ reply' = [reply EXCEPT ![w] = IF closing[w] THEN Append(rep, ErrReply) ELSE rep]

\* !res of the lpop callback: null (empty list) and the empty string
Falsy(res) == res = Nil \/ res.text = ""

\* a bail that polls again at once instead of setting the timer
RescheduleNow(w) ==
  /\ IssueLpop(w, Tail(reply[w]))
  /\ UNCHANGED <<timers, pollTimer, children, execBy>>
\* a bail that gives up: no timer is set
RescheduleNever(w) ==
  /\ reply' = [reply EXCEPT ![w] = Tail(@)]
  /\ UNCHANGED <<timers, pollTimer, pipe, children, execBy>>
\* the callback's branches that only set the poll timer: bail (lines 84-87,
\* reached from 90 and 102) and the empty result (lines 93-96)
Reschedule(w) ==
  /\ SetTimeout(w)
  /\ reply' = [reply EXCEPT ![w] = Tail(@)]
  /\ UNCHANGED <<pipe, children, execBy>>

\* a last branch that forks and sets the poll timer as well
ExecuteAndPoll(w, entry) ==
  /\ pipe' = [pipe EXCEPT ![w] = Send(w, WorkingOn(w, entry))]
  /\ children' = [children EXCEPT ![w] = @ \cup {entry}]
  /\ execBy' = [execBy EXCEPT ![entry.id] = @ \cup {w}]
  /\ reply' = [reply EXCEPT ![w] = Tail(@)]
  /\ SetTimeout(w)
\* the callback's last branch: workingOn(job) and fork (lines 105-109)
Execute(w, entry) ==
  /\ pipe' = [pipe EXCEPT ![w] = Send(w, WorkingOn(w, entry))]
  /\ children' = [children EXCEPT ![w] = @ \cup {entry}]
  /\ execBy' = [execBy EXCEPT ![entry.id] = @ \cup {w}]
  /\ reply' = [reply EXCEPT ![w] = Tail(@)]
  /\ UNCHANGED <<timers, pollTimer>>

\* the lpop callback: lines 83-109
LpopCallback(w) ==
  /\ phase = "running"
  /\ reply[w] # <<>>
  /\ LET r == Head(reply[w])
     IN IF r.err \/ Falsy(r.res) \/ ~JSONParse(r.res.text).ok
        THEN Reschedule(w)
        ELSE Execute(w, r.res)
  /\ UNCHANGED <<store, procVars, running, closing, recorded, exited, stopped,
                 popped, classified>>

\* a pending timeout fires: () => this.waitAndProcess() (lines 86, 94, 122)
TimerFire(w) ==
  /\ phase = "running"
  /\ timers[w] > 0
  /\ \E isHandle \in BOOLEAN :
       /\ isHandle => pollTimer[w]
       /\ ~isHandle => timers[w] > (IF pollTimer[w] THEN 1 ELSE 0)
       /\ pollTimer' = [pollTimer EXCEPT ![w] = IF isHandle THEN FALSE ELSE @]
  /\ timers' = [timers EXCEPT ![w] = @ - 1]
  /\ IssueLpop(w, reply[w])
  /\ UNCHANGED <<store, procVars, running, closing, children, histVars>>

\* the outcome paths of the child's exit handler: lines 116-120
Outcome(w, entry, out) ==
  IF out.code = 0 THEN Success(w, entry) ELSE Fail(w, entry, out.stderr)

\* child.on('exit'): lines 115-124
ChildExit(w, entry, out) ==
  /\ phase = "running"
  /\ entry \in children[w]
  /\ out \in RunHelper(entry.text)
  /\ children' = [children EXCEPT ![w] = @ \ {entry}]
  /\ exited' = [exited EXCEPT ![entry.id] = @ \cup {out.code}]
  /\ pipe' = [pipe EXCEPT ![w] = Send(w, Outcome(w, entry, out))]
  /\ IF running[w] THEN SetTimeout(w) ELSE UNCHANGED <<timers, pollTimer>>
  /\ UNCHANGED <<store, procVars, running, closing, reply, execBy, recorded, stopped,
                 popped, classified>>

\* stop() on every worker of S: lines 74-80
StopAll(S) ==
  /\ timers' = [w \in Workers |-> IF w \in S /\ pollTimer[w] THEN timers[w] - 1 ELSE timers[w]]
  /\ pollTimer' = [w \in Workers |-> IF w \in S THEN FALSE ELSE pollTimer[w]]
  /\ pipe' = [w \in Workers |-> IF w \in S THEN Send(w, Unregister(w)) ELSE pipe[w]]
  /\ running' = [w \in Workers |-> IF w \in S THEN FALSE ELSE running[w]]
  /\ closing' = [w \in Workers |-> IF w \in S THEN TRUE ELSE closing[w]]
  /\ stopped' = stopped \cup S

\* the runners the module's queues object refers to
Runners == {queues[q] : q \in DOMAIN queues}

\* QueueRunner.quit(): lines 39-44
Quit(r) ==
  /\ phase = "running"
  /\ r \in Runners
  /\ StopAll(RunnerWorkers(r))
  /\ UNCHANGED <<store, procVars, reply, children, execBy, recorded, exited,
                 popped, classified>>

Triggers == {"exception", "SIGINT", "SIGHUP", "SIGTERM"}

\* handleException / the signal handlers -> handleExit -> cleanExit:
\* lines 194-210, installed at lines 255-259; from is only logged
HandleExit(from) ==
  /\ phase = "running"
  /\ StopAll(UNION {RunnerWorkers(r) : r \in Runners})
  /\ phase' = "exited"
  /\ exitCode' = 0
  /\ UNCHANGED <<store, config, queues, reply, children, execBy, recorded, exited,
                 popped, classified>>

Next ==
  \/ \E cfg \in Configs : Run(cfg)
  \/ \E w \in Workers : StoreApply(w)
  \/ \E w \in Workers : StoreError(w)
  \/ \E w \in Workers : LpopCallback(w)
  \/ \E w \in Workers : TimerFire(w)
  \/ \E w \in Workers : \E entry \in children[w] : \E out \in RunHelper(entry.text) :
       ChildExit(w, entry, out)
  \/ \E r \in Runners : Quit(r)
  \/ \E from \in Triggers : HandleExit(from)

Spec == Init /\ [][Next]_vars

\* every Worker instance some configuration creates
AllWorkers ==
  UNION {{[r |-> r, id |-> i] : r \in 1..Len(cfg.queue), i \in 0..(cfg.count - 1)} :
           cfg \in Configs}

\* the event loop runs every callback that is due: a timeout that has
\* expired, a reply that has arrived, the exit of a subprocess (every
\* subprocess ends); the store applies what a connection sent, and a
\* connection whose commands keep arriving is not answered with transport
\* errors for ever
Fairness ==
  \A w \in AllWorkers :
    /\ WF_vars(w \in Workers /\ TimerFire(w))
    /\ WF_vars(w \in Workers /\ LpopCallback(w))
    /\ WF_vars(w \in Workers /\ \E entry \in children[w] :
                  \E out \in RunHelper(entry.text) : ChildExit(w, entry, out))
    /\ SF_vars(w \in Workers /\ StoreApply(w))

FairSpec == Init /\ [][Next]_vars /\ Fairness

\* ------------------------------------------------------------- claims
\* the Job shape of the wire format: an object with a class and its args
IsJob(text) ==
  LET job == JSONParse(text)
  IN job.ok /\ job.kind = "object" /\ {"class", "args"} \subseteq DOMAIN job.fields

\* the stat increments the store has applied for an entry
Increments(e) == recorded[e].processed + recorded[e].failed

\* a worker of that name holds a claim: a subprocess runs for it, or its
\* write or delete of the working-on key is still on the way
HoldsClaim(n) ==
  \E w \in Workers :
    /\ NameOf(w) = n
    /\ \/ children[w] # {}
       \/ \E i \in 1..Len(pipe[w]) : pipe[w][i].op \in {"set_worker", "del_worker"}

\* the claim of entry e by worker w is over: the subprocess has exited, its
\* handler has run and the store has applied everything the worker issued
Resolved(e, w) ==
  /\ w \in execBy[e]
  /\ exited[e] # {}
  /\ \A c \in children[w] : c.id # e
  /\ pipe[w] = <<>>

\* C1: every valid job a worker popped ends with exactly one of the processed
\* and failed counters incremented for it and with the worker's working-on
\* key absent, also when stop() or quit() came while it was in flight.
C1_OutcomeRecorded ==
  \A e \in popped : \A w \in execBy[e.id] :
    IsJob(e.text) /\ Resolved(e.id, w) =>
      /\ Increments(e.id) = 1
      /\ ~HoldsClaim(NameOf(w)) => NameOf(w) \notin DOMAIN store.worker

\* C2: no claim contributes more than one increment to the two counters, and
\* processed + failed never exceeds the number of entries popped.
C2_NoDoubleRecording ==
  /\ \A e \in EntryIds : Increments(e) <= 1
  /\ store.processed + store.failed <= Cardinality(popped)

\* C2's case: every entry popped was claimed and its outcome recorded once
C2_Witness ==
  /\ popped # {}
  /\ \A e \in popped : execBy[e.id] # {} /\ Increments(e.id) = 1
  /\ store.processed + store.failed = Cardinality(popped)

\* C3: no queue entry is handed to the executor by two workers.
C3_ExactlyOnceClaim ==
  \A e \in EntryIds : Cardinality(execBy[e]) <= 1

\* C3's case: two workers of one queue raced for its only entry; one runs it,
\* the other was answered with an empty result and only set its poll timer
C3_Witness ==
  \E w1 \in Workers, w2 \in Workers :
    /\ w1 # w2
    /\ QueueOf(w1) = QueueOf(w2)
    /\ \E c \in children[w1] : popped = {c}
    /\ store.queue[QueueOf(w1)] = <<>>
    /\ \A e \in EntryIds : w2 \notin execBy[e]
    /\ timers[w2] = 1
    /\ pipe[w2] = <<>> /\ reply[w2] = <<>>
    /\ w2 \notin stopped

\* the step is a pop attempt of worker w: waitAndProcess() has called lpop
\* (on a closing client the call is answered with the client's error)
PopAttempt(w) ==
  \/ pipe'[w] = Append(pipe[w], LpopCmd(w))
  \/ /\ closing[w]
     /\ pipe'[w] = pipe[w]
     /\ reply'[w] = Append(reply[w], ErrReply)

\* C4: once stop() has been called on a worker it never sets a poll timer and
\* never attempts another pop, whatever was in flight when stop() was called.
C4_NoPollAfterStop ==
  [][\A w \in stopped : timers'[w] <= timers[w] /\ ~PopAttempt(w)]_vars

\* C5: once quit() has been called on a runner and the store has applied what
\* its workers issued, none of their identities is in the live-worker set and
\* none of their started-at and working-on keys exists, in every later state.
C5_QuitUnregisters ==
  \A r \in Runners :
    (/\ RunnerWorkers(r) \subseteq stopped
     /\ \A w \in RunnerWorkers(r) : pipe[w] = <<>>)
    => \A w \in RunnerWorkers(r) :
         /\ NameOf(w) \notin store.workers
         /\ NameOf(w) \notin store.started
         /\ NameOf(w) \notin DOMAIN store.worker

\* C6: when the process has exited on a shutdown trigger, stop() has been
\* called on every worker of every runner run() built, and the exit code is 0.
C6_ExitQuitsAll ==
  phase = "exited" => exitCode = 0 /\ Workers \subseteq stopped

\* the step is worker w's lpop callback taking the reply at the head
CallbackStep(w) == reply[w] # <<>> /\ reply'[w] = Tail(reply[w])

\* the elements of the failed list that were pushed for entry e
RecordsOf(e) == {i \in 1..Len(store.failedList) : classified[i].id = e}

\* C7: a popped payload that does not parse as a Job is a bail: the callback
\* writes no working-on key, forks no subprocess and sets the poll timer, and
\* no counter is incremented and no FailureRecord pushed for the entry.
C7_MalformedIsBail ==
  /\ [][\A w \in Workers :
          (/\ CallbackStep(w)
           /\ ~Head(reply[w]).err
           /\ Head(reply[w]).res # Nil
           /\ ~IsJob(Head(reply[w]).res.text))
          => /\ pipe'[w] = pipe[w]
             /\ children'[w] = children[w]
             /\ timers'[w] = timers[w] + 1]_vars
  /\ [](\A e \in popped :
          ~IsJob(e.text) => /\ execBy[e.id] = {}
                            /\ Increments(e.id) = 0
                            /\ RecordsOf(e.id) = {})

\* the reply of a poll that yields no job: a transport error or an empty list
NoJob(r) == r.err \/ r.res = Nil

\* C8: the callback of a poll that yields no job issues no command (so no
\* counter, failed-list or working-on change), forks nothing and sets exactly
\* one poll timer; and a pop is attempted again only when a timer fires.
C8_NoJobPollRetries ==
  [][\A w \in Workers :
       /\ (CallbackStep(w) /\ NoJob(Head(reply[w])))
          => /\ store' = store
             /\ pipe'[w] = pipe[w]
             /\ children'[w] = children[w]
             /\ timers'[w] = timers[w] + 1
       /\ PopAttempt(w) => timers'[w] = timers[w] - 1]_vars

\* C8's case: a running worker whose poll of a queue that holds entries was
\* answered with a transport error waits on its poll timer, nothing recorded
C8_Witness ==
  \E w \in Workers :
    /\ w \notin stopped
    /\ store.queue[QueueOf(w)] # <<>>
    /\ popped = {}
    /\ timers[w] = 1
    /\ pipe[w] = <<>> /\ reply[w] = <<>>
    /\ store.processed = 0 /\ store.failed = 0 /\ store.failedList = <<>>

\* a diagnostic text that parses as JSON containing the recognized fields
Recognized(text) ==
  LET data == JSONParse(text)
  IN data.ok /\ data.kind = "object"
     /\ {"exception", "error", "backtrace"} \subseteq DOMAIN data.fields

\* C9: the FailureRecord of a recognized diagnostic text carries its
\* exception, error and backtrace verbatim; that of any other text carries
\* exception UnclassifiedRunnerError and the raw text as error; so every
\* FailureRecord carries an exception and an error.
C9_Classification ==
  \A i \in 1..Len(store.failedList) :
    LET rec == store.failedList[i]
        text == classified[i].response
    IN /\ rec.exception # Absent
       /\ rec.error # Absent
       /\ Recognized(text) =>
            /\ rec.exception = JSONParse(text).fields["exception"]
            /\ rec.error = JSONParse(text).fields["error"]
            /\ rec.backtrace = JSONParse(text).fields["backtrace"]
       /\ ~Recognized(text) =>
            /\ rec.exception = JStr("UnclassifiedRunnerError")
            /\ rec.error = JStr(text)

\* a worker's push of a FailureRecord is on the way while the store has
\* already applied the increment of failed that goes with it
MidRecording ==
  \E w \in Workers : \E i \in 1..Len(pipe[w]) :
    /\ pipe[w][i].op = "lpush_failed"
    /\ \A j \in 1..(i - 1) : pipe[w][j].op # "incr_failed"

\* C10: exit code 0 adds exactly 1 to processed and nothing to failed and the
\* failed list; a nonzero code adds exactly 1 to failed and pushes exactly one
\* FailureRecord with the popped job as payload and the claiming worker's
\* identity and queue; outside a recording the failed list is as long as failed.
C10_Bookkeeping ==
  /\ \A e \in popped : \A w \in execBy[e.id] :
       Resolved(e.id, w) =>
         /\ exited[e.id] = {0} =>
              /\ recorded[e.id] = [processed |-> 1, failed |-> 0]
              /\ RecordsOf(e.id) = {}
         /\ 0 \notin exited[e.id] =>
              /\ recorded[e.id] = [processed |-> 0, failed |-> 1]
              /\ Cardinality(RecordsOf(e.id)) = 1
              /\ \A i \in RecordsOf(e.id) :
                   /\ store.failedList[i].payload = JSONParse(e.text)
                   /\ store.failedList[i].worker = NameOf(w)
                   /\ store.failedList[i].queue = QueueOf(w)
  /\ ~MidRecording => Len(store.failedList) = store.failed

\* the workers that bear the identity n
Bearers(n) == {w \in Workers : NameOf(w) = n}

\* C11: a worker's working-on key is present exactly while the worker has a
\* claimed job whose outcome is not yet recorded: with nothing of the worker on
\* its way to the store, the key exists if and only if a subprocess of the
\* worker is executing, also when stop() was called during the execution; and
\* a worker has at most one claim, so at most one record.
C11_WorkingOnRecord ==
  \A w \in Workers :
    /\ Cardinality(children[w]) <= 1
    /\ (\A b \in Bearers(NameOf(w)) : pipe[b] = <<>>)
       => (NameOf(w) \in DOMAIN store.worker
             <=> \E b \in Bearers(NameOf(w)) : children[b] # {})

\* the store has applied the commands of worker w's register()
Registered(w) ==
  \A i \in 1..Len(pipe[w]) : pipe[w][i].op \notin {"sadd", "set_started"}

\* worker w has attempted a pop: its lpop is on the way or was answered
HasPolled(w) ==
  \/ \E i \in 1..Len(pipe[w]) : pipe[w][i].op = "lpop"
  \/ reply[w] # <<>>
  \/ timers[w] > 0
  \/ children[w] # {}
  \/ \E e \in EntryIds : w \in execBy[e]

\* C12: a worker's sadd and started-at write are issued before its first
\* lpop; once stop() was called on a worker and the store has applied what it
\* issued, its identity is not in the live-worker set and its working-on and
\* started-at keys do not exist; and from the store's applying its
\* registration until stop() is called, its identity is in the live-worker set.
C12_RegistrationSymmetry ==
  \A w \in Workers :
    /\ \A i \in 1..Len(pipe[w]) : \A j \in 1..Len(pipe[w]) :
         (pipe[w][i].op = "lpop" /\ pipe[w][j].op \in {"sadd", "set_started"}) => j < i
    /\ (HasPolled(w) /\ ~Registered(w))
         => \E i \in 1..Len(pipe[w]) : pipe[w][i].op = "lpop"
    /\ (w \in stopped /\ pipe[w] = <<>>)
         => /\ NameOf(w) \notin store.workers
            /\ NameOf(w) \notin store.started
            /\ NameOf(w) \notin DOMAIN store.worker
    /\ (Registered(w) /\ w \notin stopped) => NameOf(w) \in store.workers

\* the identities in the live-worker set that belong to queue q
LiveOf(q) == {n \in store.workers : n.queue = q}

\* C13: a runner with worker count N has exactly N workers, with the indices
\* 0..N-1, all started, and N pairwise distinct identities; once the store has
\* applied their registration, and before any stop(), the live-worker set holds
\* exactly these N identities for the runner's queue.
C13_WorkersPerRunner ==
  \A r \in 1..Len(config.queue) :
    LET W == RunnerWorkers(r)
        names == {NameOf(w) : w \in W}
    IN /\ Cardinality(W) = config.count
       /\ {w.id : w \in W} = 0..(config.count - 1)
       /\ Cardinality(names) = config.count
       /\ \A w \in W : w \notin stopped => running[w]
       /\ (stopped = {} /\ \A w \in W : Registered(w))
            => LiveOf(config.queue[r]) = names

\* C13's case: a runner with three workers, all three registered
C13_Witness ==
  /\ config.count = 3
  /\ stopped = {}
  /\ \A w \in Workers : Registered(w)
  /\ Cardinality(store.workers) = 3
  /\ {n.id : n \in store.workers} = {0, 1, 2}

\* C14: no two Worker instances run() created have the same identity, so no
\* two connections carry a command on the same live-set member, started-at
\* key or working-on key.
C14_UniqueIdentity ==
  \A w1 \in Workers : \A w2 \in Workers :
    w1 # w2 =>
      /\ NameOf(w1) # NameOf(w2)
      /\ \A i \in 1..Len(pipe[w1]) : \A j \in 1..Len(pipe[w2]) :
           pipe[w1][i].name # pipe[w2][j].name

\* the step is the exit handler of a subprocess of worker w
ExitStep(w) == children'[w] # children[w] /\ children'[w] \subseteq children[w]

\* the step puts a stat increment of worker w on its way to the store
IssuesOutcome(w) ==
  \E i \in (Len(pipe[w]) + 1)..Len(pipe'[w]) :
    pipe'[w][i].op \in {"incr_processed", "incr_failed"}

\* C15: the exit handler of a subprocess records the outcome and sets the
\* poll timer if and only if the worker is running: a running worker gets
\* exactly one more timer; a worker stopped during the execution records the
\* outcome too, sets no timer, attempts no pop and stays stopped.
C15_ExitReschedules ==
  [][\A w \in Workers :
       ExitStep(w) =>
         /\ IssuesOutcome(w)
         /\ running[w] => timers'[w] = timers[w] + 1 /\ pollTimer'[w]
         /\ ~running[w] => /\ timers'[w] = timers[w]
                           /\ pollTimer'[w] = pollTimer[w]
                           /\ ~running'[w]
                           /\ ~PopAttempt(w)]_vars

\* the lpop commands of worker w on their way to the store
PopsOnTheWay(w) == Cardinality({i \in 1..Len(pipe[w]) : pipe[w][i].op = "lpop"})

\* what worker w has going: pending poll timers, pops in flight (the command
\* on its way or its reply not yet handled) and executing subprocesses
Activities(w) ==
  timers[w] + PopsOnTheWay(w) + Len(reply[w]) + Cardinality(children[w])

\* C16: a worker has at most one of a pending poll timer, a pop in flight and
\* an executing subprocess, and exactly one while it is running.
C16_SingleActivity ==
  \A w \in Workers :
    /\ Activities(w) <= 1
    /\ running[w] => Activities(w) = 1

\* C16's case: a running worker that has executed a job through to its
\* subprocess's exit has the poll timer, and nothing else, pending
C16_Witness ==
  \E w \in Workers : \E e \in EntryIds :
    /\ running[w]
    /\ w \in execBy[e]
    /\ exited[e] # {}
    /\ timers[w] = 1 /\ pollTimer[w]
    /\ PopsOnTheWay(w) = 0 /\ reply[w] = <<>> /\ children[w] = {}

\* list s is what is left of list t after removing entries from its head
IsSuffix(s, t) == \E k \in 0..Len(t) : s = SubSeq(t, k + 1, Len(t))

\* the popped entries whose claim is in flight: the reply is on its way to
\* the callback, the subprocess is executing, or the stat increment is on its
\* way to the store
InFlight ==
  {e \in popped :
     \E w \in Workers :
       \/ \E i \in 1..Len(reply[w]) : reply[w][i].res = e
       \/ e \in children[w]
       \/ \E i \in 1..Len(pipe[w]) :
            pipe[w][i].op \in {"incr_processed", "incr_failed"} /\ pipe[w][i].tag.id = e.id}

\* the popped entries a callback has dropped without forking a subprocess
Dropped ==
  {e \in popped :
     /\ execBy[e.id] = {}
     /\ \A w \in Workers : \A i \in 1..Len(reply[w]) : reply[w][i].res # e}

\* C17: a queue list only loses entries from its head, and the number of
\* entries popped equals processed + failed + the claims in flight + the
\* entries dropped as malformed.
C17_JobConservation ==
  /\ [][\A q \in QueueNames : IsSuffix(store.queue[q]', store.queue[q])]_vars
  /\ [](Cardinality(popped)
          = store.processed + store.failed + Cardinality(InFlight) + Cardinality(Dropped))

\* entry e is in the list of queue q
Queued(q, e) == \E i \in 1..Len(store.queue[q]) : store.queue[q][i].id = e

\* worker w is started and stop() has not been called on it
Polling(w) == w \in Workers /\ w \notin stopped /\ phase = "running"

\* C18: while the process runs and a worker of a queue is not stopped, an
\* entry of the queue is eventually popped; and a worker that is not stopped
\* attempts a pop again and again, whatever its polls and jobs ended with.
C18_PollingProgress ==
  /\ \A q \in QueueNames : \A e \in EntryIds :
       (Queued(q, e) /\ \E w \in AllWorkers : Polling(w) /\ QueueOf(w) = q)
         ~> \/ \E x \in popped : x.id = e
            \/ \A w \in AllWorkers : ~(Polling(w) /\ QueueOf(w) = q)
  /\ \A w \in AllWorkers : []<>(Polling(w) => PopsOnTheWay(w) > 0)

\* C18's case: a worker that is not stopped has popped the queue's entry,
\* handled it, and has its next attempt scheduled
C18_Witness ==
  \E w \in Workers :
    /\ Polling(w)
    /\ popped # {}
    /\ store.queue[QueueOf(w)] = <<>>
    /\ InFlight = {}
    /\ \A e \in popped : w \in execBy[e.id] \/ e \in Dropped
    /\ timers[w] = 1

====
